---------------------------- MODULE Spec2Model ----------------------------
(***************************************************************************)
(* A model of the evaluation code of HierarchyTransformers:                *)
(*   - HierarchyRetrainedEvaluator.evaluate (threshold / weight search),   *)
(*   - HierarchyRetrainedEvaluator.evaluate_dataloader and __call__,       *)
(*   - ReconstructionEvaluator (hypernym ranks, average precision).        *)
(*                                                                         *)
(* Numbers.  Distances, norms, scores and thresholds are exact fixed-point *)
(* numbers: the integer x stands for the real x / Scale.  A threshold of   *)
(* the search, k / granuality, is the integer k * (Scale \div granuality). *)
(* Fractions (precision, recall, F1, accuracy) are pairs <<num, den>>;     *)
(* <<0, 0>> is NaN.                                                        *)
(***************************************************************************)
EXTENDS Integers, Sequences, FiniteSets, TLC

VARIABLES
    result_mat,     \* evaluate: the score matrix, a sequence of rows <<label, dist, anchor norm, other norm>>
    granuality,     \* evaluate: its granuality argument
    zeroDiv,        \* how the metric helper treats a zero denominator: "nan" or "zero"
    args,           \* evaluate: <<best_val_centri_score_weight, best_val_threshold>> of the current call
    pc,             \* evaluate: "idle", "loop" (inside the weight loop), "done", "raised"
    mode,           \* evaluate: which branch the current call took: "none", "apply", "search"
    loopIdx,        \* evaluate: number of iterations of `for centri_score_weight in range(10)` started
    best_f1,        \* evaluate: local best_f1
    best_results,   \* evaluate: local best_results
    is_updated,     \* evaluate: local is_updated
    scanned,        \* history: the candidates <<weight, threshold, F1>> the search evaluated, in order
    ret,            \* evaluate: the returned value (None or a results record)
    calls,          \* number of calls of evaluate made on this matrix
    firstRet,       \* history: what the first call returned
    loaders,        \* __call__: len() of the train, val and test dataloaders (0: not configured)
    cpc,            \* __call__: "none", "start", "train", "val", "test", "return", "done", "raised"
    loss_training,  \* loss_module.training (train mode) as opposed to eval mode
    model_training, \* model.training
    num_batch,      \* evaluate_dataloader: number of batches of the running dataloader processed
    eval_loss,      \* evaluate_dataloader: local eval_loss
    dl_results,     \* evaluate_dataloader: the rows collected so far (local results)
    val_results,    \* __call__: val_results, None until the val dataloader is evaluated
    test_results,   \* __call__: test_results, None until the test dataloader is evaluated
    passed,         \* history: the hyperparameters __call__ passed to the test evaluation
    order,          \* history: the evaluate_dataloader calls finished so far, in order
    call_ret,       \* __call__: the value returned
    skipped,        \* history: per dataloader, the batches whose loss was NaN
    examples,       \* triplet mode: the examples of the dataloader, in delivery order
    batch_size,     \* triplet mode: the dataloader's batch size
    hypernyms,      \* reconstruction: graph.get_hypernyms, entity -> set of entities
    distances,      \* reconstruction: the distance between the embeddings of two entities
    ent,            \* reconstruction: position of the loop over eval_entities
    rank_dict,      \* reconstruction: get_hypernym_ranks of the last entity evaluated
    ap_results,     \* reconstruction: get_hypernym_average_precision of that entity
    all_ranks,      \* reconstruction: all_ranks
    all_aps,        \* reconstruction: all_aps
    recon_ret,      \* reconstruction: what evaluate_hypernym_mean_rank_and_AP returned
    fwd_labels,     \* HyperbolicLoss.forward: the labels tensor
    rep_anchor,     \* forward: the anchor embeddings, each as its hyperbolic norm
    rep_other,      \* forward: the other embeddings, each as its hyperbolic norm
    fpc,            \* forward: "none", "cluster", "centri", "cone", "sum", "returned", "raised"
    cluster_loss,   \* forward: cluster_loss
    centri_loss,    \* forward: centri_loss
    cone_loss,      \* forward: cone_loss
    fwd_loss        \* forward: the loss returned

evalVars == <<result_mat, granuality, args, pc, mode, loopIdx, best_f1,
              best_results, is_updated, scanned, ret, calls, firstRet>>

callVars == <<loaders, cpc, loss_training, model_training, num_batch, eval_loss,
              dl_results, val_results, test_results, passed, order, call_ret, skipped>>

tripVars == <<examples, batch_size>>

reconVars == <<hypernyms, distances, ent, rank_dict, ap_results, all_ranks, all_aps, recon_ret>>

lossVars == <<fwd_labels, rep_anchor, rep_other, fpc, cluster_loss, centri_loss, cone_loss,
              fwd_loss>>

vars == <<zeroDiv, evalVars, callVars, tripVars, reconVars, lossVars>>

----------------------------------------------------------------------------
(* Constants of the program and bounds of the model *)

\* Python's None; an optional value x that is present is Some(x) = <<x>>
None == <<>>
Some(x) == <<x>>

\* evaluate_dataloader calls self.evaluate(result_mat, 100, ...); also evaluate's default
EvalGranularity == 100

\* for centri_score_weight in range(10)
NumWeights == 10

\* best_f1 = -1.0
InitBestF1 == <<-1, 1>>

\* the fixed-point denominator: one unit is half a threshold step at granuality 100
Scale == 2 * EvalGranularity

\* bounds of the enumerated inputs
MaxRows == 2
MaxStairs == 10

----------------------------------------------------------------------------
(* Arithmetic helpers *)

\* Python's int(a / b) for b > 0: truncation toward zero
Trunc(a, b) == IF a >= 0 THEN a \div b ELSE -((-a) \div b)

\* int(x * granuality) of a fixed-point x
IntTimes(x, g) == Trunc(x * g, Scale)

\* threshold / granuality as a fixed-point number (granuality divides Scale)
ThresholdOf(k, g) == k * (Scale \div g)

IsNaN(f) == f[2] = 0

\* a > b on fractions with Python/IEEE semantics: false when either is NaN
FracGt(a, b) == /\ ~IsNaN(a)
                /\ ~IsNaN(b)
                /\ a[1] * b[2] > b[1] * a[2]

FracEq(a, b) == /\ ~IsNaN(a)
                /\ ~IsNaN(b)
                /\ a[1] * b[2] = b[1] * a[2]

\* Python truthiness of an optional number: None and 0.0 are falsy
Truthy(x) == x # None /\ x[1] # 0

SeqMin(s) == CHOOSE x \in {s[i] : i \in 1..Len(s)} : \A j \in 1..Len(s) : x <= s[j]
SeqMax(s) == CHOOSE x \in {s[i] : i \in 1..Len(s)} : \A j \in 1..Len(s) : x >= s[j]

Labels(mat) == [i \in 1..Len(mat) |-> mat[i][1]]


----------------------------------------------------------------------------
(* The metric helper threshold_evaluate, imported from .eval_functions.     *)
(* A row is predicted positive when its score is <= the threshold;         *)
(* precision, recall, F1 and accuracy follow from the confusion counts.    *)
(* Its treatment of a zero denominator is left open by zeroDiv.            *)

Count(scores, labels, threshold, pred, lab) ==
    Cardinality({i \in DOMAIN scores : ((scores[i] <= threshold) = pred) /\ labels[i] = lab})

ZeroDivFrac(n, d) ==
    IF d # 0 THEN <<n, d>>
    ELSE IF zeroDiv = "zero" THEN <<0, 1>> ELSE <<0, 0>>

\* 2 * P * R / (P + R)
HarmonicMean(p, r) ==
    IF IsNaN(p) \/ IsNaN(r) THEN <<0, 0>>
    ELSE ZeroDivFrac(2 * p[1] * r[1], p[1] * r[2] + r[1] * p[2])

threshold_evaluate(scores, labels, threshold) ==
    LET tp == Count(scores, labels, threshold, TRUE, 1)
        fp == Count(scores, labels, threshold, TRUE, 0)
        fn == Count(scores, labels, threshold, FALSE, 1)
        tn == Count(scores, labels, threshold, FALSE, 0)
        P  == ZeroDivFrac(tp, tp + fp)
        R  == ZeroDivFrac(tp, tp + fn)
    IN  [threshold |-> threshold,
         P   |-> P,
         R   |-> R,
         F1  |-> HarmonicMean(P, R),
         ACC |-> ZeroDivFrac(tp + tn, tp + fp + fn + tn)]

\* results = {"centri_score_weight": w}; results.update(threshold_evaluate(...))
WithWeight(w, m) ==
    [centri_score_weight |-> w, threshold |-> m.threshold,
     P |-> m.P, R |-> m.R, F1 |-> m.F1, ACC |-> m.ACC]

----------------------------------------------------------------------------
(* HierarchyRetrainedEvaluator.evaluate *)

\* if best_val_threshold and best_val_centri_score_weight:
ApplyGuard(w, t) == Truthy(t) /\ Truthy(w)

\* scores = result_mat[:, 1] + best_val_centri_score_weight * (result_mat[:, 3] - result_mat[:, 2])
MutApplyScoresSwapped(mat, w) == [i \in 1..Len(mat) |-> mat[i][2] + w * (mat[i][3] - mat[i][4])]
ApplyScores(mat, w) == [i \in 1..Len(mat) |-> mat[i][2] + w * (mat[i][4] - mat[i][3])]

\* scores = result_mat[:, 1] + centri_score_weight * (result_mat[:, 3] - result_mat[:, 2])
SearchScores(mat, w) == [i \in 1..Len(mat) |-> mat[i][2] + w * (mat[i][4] - mat[i][3])]

\* start = int(scores.min() * granuality)
ScanStart(scores, g) == IntTimes(SeqMin(scores), g)

\* end = int(scores.max() * granuality)
MutScanEndInclusive(scores, g) == IntTimes(SeqMax(scores), g) + 1
ScanEnd(scores, g) == IntTimes(SeqMax(scores), g)

\* if results["F1"] > best_f1:
MutImprovesOrTies(f1, best) == ~IsNaN(f1) /\ ~IsNaN(best) /\ f1[1] * best[2] >= best[1] * f1[2]
Improves(f1, best) == FracGt(f1, best)

\* if not is_updated: break
MutNeverStops(updated) == FALSE
EarlyStop(updated) == ~updated

\* the apply branch: the results returned when both hyperparameters are truthy
ApplyResults(mat, w, t) ==
    WithWeight(w, threshold_evaluate(ApplyScores(mat, w), Labels(mat), t))

\* the body of `for threshold in range(start, end)` for one k (lines 74-80);
\* acc holds the locals the loop updates
ScanStep(k, scores, labels, w, g, acc) ==
    LET threshold == ThresholdOf(k, g)
        results   == threshold_evaluate(scores, labels, threshold)
        hit       == Improves(results.F1, acc.best_f1)
    IN  [best_f1      |-> IF hit THEN results.F1 ELSE acc.best_f1,
         best_results |-> IF hit THEN Some(WithWeight(w, results)) ELSE acc.best_results,
         is_updated   |-> acc.is_updated \/ hit,
         scanned      |-> Append(acc.scanned, <<w, threshold, results.F1>>)]

\* for threshold in range(start, end): the steps k = start, ..., end - 1 in this order
\* (the range is split in halves only to keep the evaluation shallow)
RECURSIVE ScanThresholds(_, _, _, _, _, _, _)
ScanThresholds(start, end, scores, labels, w, g, acc) ==
    IF start >= end THEN acc
    ELSE IF end = start + 1 THEN ScanStep(start, scores, labels, w, g, acc)
    ELSE LET mid   == start + ((end - start) \div 2)
             first == ScanThresholds(start, mid, scores, labels, w, g, acc)
         IN  IF first.is_updated \in BOOLEAN   \* the first half is evaluated before the second
             THEN ScanThresholds(mid, end, scores, labels, w, g, first)
             ELSE acc

\* one iteration of `for centri_score_weight in range(10)` past the early-stop test:
\* lines 66-80 for the loop index idx (the weight is idx + 1)
SearchIteration(mat, g, idx, acc) ==
    LET w      == idx + 1
        scores == SearchScores(mat, w)
    IN  ScanThresholds(ScanStart(scores, g), ScanEnd(scores, g), scores, Labels(mat), w, g,
                       [acc EXCEPT !.is_updated = FALSE])

\* the whole loop of lines 62-80, from loop index idx on
RECURSIVE SearchLoop(_, _, _, _)
SearchLoop(mat, g, idx, acc) ==
    IF idx = NumWeights \/ EarlyStop(acc.is_updated) THEN acc
    ELSE SearchLoop(mat, g, idx + 1, SearchIteration(mat, g, idx, acc))

\* evaluate as a function of its arguments, for a non-empty matrix: the branch taken,
\* the value returned and the candidates a search evaluated
evaluate(mat, g, w, t) ==
    IF ApplyGuard(w, t)
    THEN [mode |-> "apply", ret |-> Some(ApplyResults(mat, w[1], t[1])), scanned |-> <<>>]
    ELSE LET acc == SearchLoop(mat, g, 0, [best_f1 |-> InitBestF1, best_results |-> None,
                                           is_updated |-> TRUE, scanned |-> <<>>])
         IN  [mode |-> "search", ret |-> acc.best_results, scanned |-> acc.scanned]

----------------------------------------------------------------------------
(* Inputs of evaluate *)

\* distances and norms of the enumerated rows, in units of 1 / Scale
Dists == {0, 1, 2}
Norms == {0, 1}

Rows == {0, 1} \X Dists \X Norms \X Norms

\* evaluate reads the matrix only through the per-row scores, their minimum and maximum
\* and counts over the rows, none of which depends on the order of the rows: the
\* enumerated matrices list their rows in one fixed order.
RowKey(r) == ((r[1] * 4 + r[2]) * 4 + r[3]) * 4 + r[4]

SmallMatrices ==
    {m \in UNION {[1..n -> Rows] : n \in 0..MaxRows} :
        \A i \in 1..(Len(m) - 1) : RowKey(m[i]) <= RowKey(m[i + 1])}

\* one threshold step at granuality 100
StairStep == Scale \div EvalGranularity

\* One positive row at score p = hi * StairStep, one negative row per j in lo..hi whose
\* score rises above p exactly when the weight exceeds j, and one negative row above p.
Stairs(lo, hi) ==
    <<  <<1, hi * StairStep, 0, 0>>  >>
    \o [j \in 1..(hi - lo + 1) |-> <<0, (hi - (lo + j - 1)) * StairStep, 0, StairStep>>]
    \o <<  <<0, (hi + 1) * StairStep, 0, 0>>  >>

StairMatrices == {Stairs(lo, hi) : lo \in {1, 2}, hi \in 0..MaxStairs}

\* rows (1, 0.5, 0.9, 0.3) and (0, 3.0, 0.9, 0.9)
EndToEndExample ==
    <<  <<1, Scale \div 2, (9 * Scale) \div 10, (3 * Scale) \div 10>>,
        <<0, 3 * Scale,    (9 * Scale) \div 10, (9 * Scale) \div 10>>  >>

Matrices == SmallMatrices \cup StairMatrices \cup {EndToEndExample}

Granularities == {EvalGranularity, Scale}

\* hyperparameters a caller may hand to evaluate: none; weight 1 with threshold 0.0 or 1.0;
\* weight 0 with threshold 1.0
ArgPairs == {<<None, None>>, <<Some(1), Some(0)>>, <<Some(1), Some(Scale)>>, <<Some(0), Some(Scale)>>}

----------------------------------------------------------------------------
(* The state machine of evaluate: calls on one matrix *)

\* the variables of __call__ while only evaluate is exercised
CallIdle ==
    /\ loaders = [train |-> 0, val |-> 0, test |-> 0]
    /\ cpc = "none"
    /\ loss_training = TRUE
    /\ model_training = TRUE
    /\ num_batch = 0
    /\ eval_loss = 0
    /\ dl_results = <<>>
    /\ val_results = None
    /\ test_results = None
    /\ passed = None
    /\ order = <<>>
    /\ call_ret = None
    /\ skipped = [train |-> 0, val |-> 0, test |-> 0]

\* the variables of triplet mode while the dataloaders deliver pairs
TripletIdle ==
    /\ examples = <<>>
    /\ batch_size = 1

\* the variables of HyperbolicLoss.forward while it is not exercised
LossIdle ==
    /\ fwd_labels = <<>>
    /\ rep_anchor = <<>>
    /\ rep_other = <<>>
    /\ fpc = "none"
    /\ cluster_loss = None
    /\ centri_loss = None
    /\ cone_loss = None
    /\ fwd_loss = None

\* the variables of the reconstruction evaluator while it is not exercised
ReconIdle ==
    /\ hypernyms = <<>>
    /\ distances = <<>>
    /\ ent = 0
    /\ rank_dict = <<>>
    /\ ap_results = None
    /\ all_ranks = <<>>
    /\ all_aps = <<>>
    /\ recon_ret = None

Init ==
    /\ result_mat \in Matrices
    /\ granuality \in Granularities
    /\ zeroDiv \in {"nan", "zero"}
    /\ args = <<None, None>>
    /\ pc = "idle"
    /\ mode = "none"
    /\ loopIdx = 0
    /\ best_f1 = InitBestF1
    /\ best_results = None
    /\ is_updated = TRUE
    /\ scanned = <<>>
    /\ ret = None
    /\ calls = 0
    /\ firstRet = None
    /\ CallIdle
    /\ TripletIdle
    /\ ReconIdle
    /\ LossIdle

\* The arguments of the next call: any, for the first call; for a second call, the
\* hyperparameters the first call's search returned.
CallArgs ==
    IF pc = "idle" THEN ArgPairs
    ELSE IF pc = "done" /\ calls = 1 /\ mode = "search" /\ args = <<None, None>> /\ ret # None
         THEN {<<Some(ret[1].centri_score_weight), Some(ret[1].threshold)>>}
         ELSE {}

\* evaluate entered with both hyperparameters truthy: lines 49-56
EvaluateApply ==
    \E a \in CallArgs :
        /\ ApplyGuard(a[1], a[2])
        /\ args' = a
        /\ mode' = "apply"
        /\ ret' = Some(ApplyResults(result_mat, a[1][1], a[2][1]))
        /\ pc' = "done"
        /\ calls' = calls + 1
        /\ firstRet' = IF calls = 0 THEN ret' ELSE firstRet
        /\ scanned' = <<>>
        /\ UNCHANGED <<result_mat, granuality, zeroDiv, loopIdx, best_f1, best_results, is_updated, callVars, tripVars, reconVars, lossVars>>

\* evaluate entered otherwise: lines 58-60
EvaluateSearch ==
    \E a \in CallArgs :
        /\ ~ApplyGuard(a[1], a[2])
        /\ args' = a
        /\ mode' = "search"
        /\ best_f1' = InitBestF1
        /\ best_results' = None
        /\ is_updated' = TRUE
        /\ loopIdx' = 0
        /\ scanned' = <<>>
        /\ ret' = None
        /\ pc' = "loop"
        /\ UNCHANGED <<result_mat, granuality, zeroDiv, calls, firstRet, callVars, tripVars, reconVars, lossVars>>

\* one iteration of `for centri_score_weight in range(10)` that passes the early-stop test
\* (lines 62-80); scores.min() of an empty matrix raises
SearchWeight ==
    /\ pc = "loop"
    /\ loopIdx < NumWeights
    /\ ~EarlyStop(is_updated)
    /\ IF Len(result_mat) = 0
       THEN /\ pc' = "raised"
            /\ is_updated' = FALSE
            /\ UNCHANGED <<loopIdx, best_f1, best_results, scanned>>
       ELSE LET acc == SearchIteration(result_mat, granuality, loopIdx,
                                       [best_f1 |-> best_f1, best_results |-> best_results,
                                        is_updated |-> is_updated, scanned |-> scanned])
            IN  /\ best_f1' = acc.best_f1
                /\ best_results' = acc.best_results
                /\ is_updated' = acc.is_updated
                /\ scanned' = acc.scanned
                /\ loopIdx' = loopIdx + 1
                /\ pc' = "loop"
    /\ UNCHANGED <<result_mat, granuality, zeroDiv, args, mode, ret, calls, firstRet, callVars, tripVars, reconVars, lossVars>>

\* the loop ends (exhausted, or `if not is_updated: break`) and best_results is returned
SearchReturn ==
    /\ pc = "loop"
    /\ (loopIdx = NumWeights \/ EarlyStop(is_updated))
    /\ ret' = best_results
    /\ pc' = "done"
    /\ calls' = calls + 1
    /\ firstRet' = IF calls = 0 THEN ret' ELSE firstRet
    /\ UNCHANGED <<result_mat, granuality, zeroDiv, args, mode, loopIdx, best_f1,
                   best_results, is_updated, scanned, callVars, tripVars, reconVars, lossVars>>

Next ==
    \/ EvaluateApply
    \/ EvaluateSearch
    \/ SearchWeight
    \/ SearchReturn

Spec == Init /\ [][Next]_vars


----------------------------------------------------------------------------
(* Vocabulary of the properties of evaluate *)

\* the composite score of a row as the specification defines it
CompositeScore(row, w) == row[2] + w * (row[4] - row[3])

RowScores(w) == {CompositeScore(result_mat[i], w) : i \in 1..Len(result_mat)}
MinScoreAt(w) == CHOOSE x \in RowScores(w) : \A y \in RowScores(w) : x <= y
MaxScoreAt(w) == CHOOSE x \in RowScores(w) : \A y \in RowScores(w) : x >= y

\* confusion counts when a row is predicted positive exactly when its composite score is <= t
PredictedPositive(w, t) == {i \in 1..Len(result_mat) : CompositeScore(result_mat[i], w) <= t}
TruePos(w, t)  == Cardinality({i \in PredictedPositive(w, t) : result_mat[i][1] = 1})
FalsePos(w, t) == Cardinality({i \in PredictedPositive(w, t) : result_mat[i][1] = 0})
FalseNeg(w, t) == Cardinality({i \in (1..Len(result_mat)) \ PredictedPositive(w, t) : result_mat[i][1] = 1})

BothSupplied == args[1] # None /\ args[2] # None
Returned == pc = "done"
SearchReturned == pc = "done" /\ mode = "search"
\* a first call without hyperparameters has returned
PlainSearchReturned == SearchReturned /\ args = <<None, None>> /\ calls = 1

\* C1: evaluate called with both a weight and a threshold supplied performs no grid
\* search; it scores with exactly the supplied weight, evaluates the metrics at exactly
\* the supplied threshold, and returns the supplied weight as centri_score_weight.
C1_SuppliedMeansApplied ==
    (BothSupplied /\ pc # "idle") =>
        /\ mode = "apply"
        /\ scanned = <<>>
        /\ Returned =>
            /\ ret # None
            /\ ret[1].centri_score_weight = args[1][1]
            /\ ret[1].threshold = args[2][1]

\* C3: when the hyperparameters a search returned are handed back to evaluate on the
\* same matrix and granularity, the call returns the F1 the search reported.
C3_RoundTripF1 ==
    (Returned /\ calls = 2) =>
        /\ ret # None
        /\ firstRet # None
        /\ FracEq(ret[1].F1, firstRet[1].F1)
        /\ ret[1].centri_score_weight = firstRet[1].centri_score_weight
        /\ ret[1].threshold = firstRet[1].threshold

C3_Witness ==
    /\ Returned
    /\ calls = 2
    /\ mode = "apply"
    /\ Len(result_mat) = 2
    /\ FracEq(ret[1].F1, <<1, 1>>)
    /\ ret[1].centri_score_weight = 2

\* C4: the pair a search returns is a candidate the search evaluated, no evaluated
\* candidate has a larger F1, and every evaluated candidate with the same F1 has a
\* larger weight, or the same weight and a threshold that is not lower.
C4_FirstFoundMaximum ==
    (SearchReturned /\ ret # None) =>
        /\ \E i \in DOMAIN scanned :
              /\ scanned[i][1] = ret[1].centri_score_weight
              /\ scanned[i][2] = ret[1].threshold
              /\ scanned[i][3] = ret[1].F1
        /\ \A j \in DOMAIN scanned :
              /\ ~FracGt(scanned[j][3], ret[1].F1)
              /\ FracEq(scanned[j][3], ret[1].F1) =>
                    \/ scanned[j][1] > ret[1].centri_score_weight
                    \/ /\ scanned[j][1] = ret[1].centri_score_weight
                       /\ scanned[j][2] >= ret[1].threshold

\* a search returned a candidate that ties with a later weight and with a later threshold
C4_Witness ==
    /\ SearchReturned
    /\ ret # None
    /\ \E j \in DOMAIN scanned :
          /\ FracEq(scanned[j][3], ret[1].F1)
          /\ scanned[j][1] > ret[1].centri_score_weight
    /\ \E j \in DOMAIN scanned :
          /\ FracEq(scanned[j][3], ret[1].F1)
          /\ scanned[j][1] = ret[1].centri_score_weight
          /\ scanned[j][2] > ret[1].threshold


\* the F1 values the threshold scan of weight w yields (NaN left out)
F1sAt(w) ==
    LET scores == SearchScores(result_mat, w)
        all == {threshold_evaluate(scores, Labels(result_mat), ThresholdOf(k, granuality)).F1 :
                   k \in ScanStart(scores, granuality)..(ScanEnd(scores, granuality) - 1)}
    IN  {f \in all : ~IsNaN(f)}

AllWeights == 1..NumWeights

\* the best F1 of each weight; NaN where the scan of the weight yields no F1
BestF1s ==
    [w \in AllWeights |->
        IF Len(result_mat) = 0 THEN <<0, 0>>
        ELSE LET fs == F1sAt(w)
             IN  IF fs = {} THEN <<0, 0>>
                 ELSE CHOOSE f \in fs : \A h \in fs : ~FracGt(h, f)]

\* b, the best F1 per weight, does not decrease up to the weight p and does not increase after it
UnimodalAt(b, p) ==
    /\ \A w \in AllWeights : ~IsNaN(b[w])
    /\ \A w \in 1..(p - 1) : ~FracGt(b[w], b[w + 1])
    /\ \A w \in p..(NumWeights - 1) : ~FracGt(b[w + 1], b[w])

\* b, the best F1 per weight, strictly increases up to the weight p and does not increase after it
StrictlyUnimodalAt(b, p) ==
    /\ \A w \in AllWeights : ~IsNaN(b[w])
    /\ \A w \in 1..(p - 1) : FracGt(b[w + 1], b[w])
    /\ \A w \in p..(NumWeights - 1) : ~FracGt(b[w + 1], b[w])

\* C5 as stated: when the best F1 per weight is unimodal in the weight with its maximum at
\* a weight p <= 8, the search returns a weight that attains that maximum, with that
\* maximum as F1, and ends without evaluating all 10 weights.
C5_UnimodalAsStated ==
    PlainSearchReturned =>
        LET b == BestF1s
        IN  \A p \in 1..(NumWeights - 2) :
                UnimodalAt(b, p) =>
                    /\ ret # None
                    /\ FracEq(ret[1].F1, b[p])
                    /\ FracEq(b[ret[1].centri_score_weight], b[p])
                    /\ loopIdx < NumWeights

\* C5 amended: when the best F1 per weight strictly increases up to its maximum at a
\* weight p <= 8 (and does not increase after it), the search returns weight p with that
\* maximum as F1 and ends after evaluating the weights 1..p+1, fewer than all 10.
C5_StrictlyUnimodal ==
    PlainSearchReturned =>
        LET b == BestF1s
        IN  \A p \in 1..(NumWeights - 2) :
                StrictlyUnimodalAt(b, p) =>
                    /\ ret # None
                    /\ ret[1].centri_score_weight = p
                    /\ FracEq(ret[1].F1, b[p])
                    /\ loopIdx = p + 1
                    /\ loopIdx < NumWeights

\* a search whose best F1 per weight strictly increases up to weight 8 has returned weight 8
C5_Witness ==
    /\ PlainSearchReturned
    /\ StrictlyUnimodalAt(BestF1s, NumWeights - 2)
    /\ ret # None
    /\ ret[1].centri_score_weight = NumWeights - 2
    /\ loopIdx = NumWeights - 1

\* C6 as stated: every scanned threshold lies between the minimum and the maximum
\* composite score at its weight (inclusive), and consecutive thresholds of one weight
\* differ by exactly 1/granularity.
C6_ThresholdsWithinMinMax ==
    /\ \A i \in DOMAIN scanned :
          /\ MinScoreAt(scanned[i][1]) <= scanned[i][2]
          /\ scanned[i][2] <= MaxScoreAt(scanned[i][1])
    /\ \A i \in 1..(Len(scanned) - 1) :
          scanned[i][1] = scanned[i + 1][1] =>
              (scanned[i + 1][2] - scanned[i][2]) * granuality = Scale

\* C6 amended: every scanned threshold t satisfies min - 1/granularity < t < max for the
\* minimum and maximum composite score at its weight, and consecutive thresholds of one
\* weight differ by exactly 1/granularity.
C6_ThresholdsWithinOneStep ==
    /\ \A i \in DOMAIN scanned :
          /\ MinScoreAt(scanned[i][1]) * granuality - Scale < scanned[i][2] * granuality
          /\ scanned[i][2] < MaxScoreAt(scanned[i][1])
    /\ \A i \in 1..(Len(scanned) - 1) :
          scanned[i][1] = scanned[i + 1][1] =>
              (scanned[i + 1][2] - scanned[i][2]) * granuality = Scale

\* a search scanned a threshold below the minimum score and two consecutive thresholds
C6_Witness ==
    /\ SearchReturned
    /\ \E i \in DOMAIN scanned : scanned[i][2] < MinScoreAt(scanned[i][1])
    /\ \E i \in 1..(Len(scanned) - 1) : scanned[i][1] = scanned[i + 1][1]

\* C7: in apply mode the metrics are those of predicting a row positive exactly when
\* distance + w * (other norm - anchor norm) <= threshold; for the rows (1, 0.5, 0.9, 0.3)
\* and (0, 3.0, 0.9, 0.9) with weight 1 the scores are -0.1 and 3.0 and at threshold 1.0
\* precision = recall = F1 = 1.
C7_CompositeScoreAndPolarity ==
    (Returned /\ mode = "apply") =>
        LET w  == args[1][1]
            t  == args[2][1]
            tp == TruePos(w, t)
            fp == FalsePos(w, t)
            fn == FalseNeg(w, t)
        IN  /\ ApplyScores(result_mat, w) = [i \in 1..Len(result_mat) |-> CompositeScore(result_mat[i], w)]
            /\ tp + fp > 0 => FracEq(ret[1].P, <<tp, tp + fp>>)
            /\ tp + fn > 0 => FracEq(ret[1].R, <<tp, tp + fn>>)
            /\ tp > 0 => FracEq(ret[1].F1, <<2 * tp, 2 * tp + fp + fn>>)
            /\ (result_mat = EndToEndExample /\ w = 1 /\ t = Scale) =>
                  /\ ApplyScores(result_mat, w) = <<-(Scale \div 10), 3 * Scale>>
                  /\ PredictedPositive(w, t) = {1}
                  /\ ret[1].P = <<1, 1>>
                  /\ ret[1].R = <<1, 1>>
                  /\ FracEq(ret[1].F1, <<1, 1>>)

\* evaluate returned from apply mode on the two example rows with weight 1, threshold 1.0
C7_Witness ==
    /\ Returned
    /\ mode = "apply"
    /\ result_mat = EndToEndExample
    /\ args = <<Some(1), Some(Scale)>>
    /\ FracEq(ret[1].F1, <<1, 1>>)

Degenerate(mat) == \/ Len(mat) = 0
                   \/ \A i \in 1..Len(mat) : mat[i][1] = 0
                   \/ \A i \in 1..Len(mat) : mat[i][1] = 1

\* C8: on an empty or single-label matrix evaluate ends in a reported "cannot compute
\* metrics" condition, never in a return (of metrics, or of an absent result).  Stated
\* for the calls in which the search evaluated no candidate, where evaluate alone decides.
C8_DegenerateIsReported ==
    (Degenerate(result_mat) /\ mode = "search" /\ scanned = <<>> /\ pc \in {"done", "raised"}) =>
        pc = "raised"


----------------------------------------------------------------------------
(* The state machine of __call__: the dataloaders evaluated one batch at a time *)

MaxBatches == 2

Splits == {"train", "val", "test"}

\* the rows a batch of one pair contributes (line 118): label, distance, anchor norm,
\* other norm; at EvalGranularity the thresholds are the even integers
CallRows == {0, 1} \X {0, 2, 4} \X {0} \X {0, 2}

\* the values self.loss_module(sentence_features, labels) can take on a batch: NaN or 1
Losses == {<<0, 0>>, <<1, 1>>}

\* the variables of evaluate while __call__ runs (evaluate is then a function)
EvalIdle ==
    /\ result_mat = <<>>
    /\ granuality = EvalGranularity
    /\ args = <<None, None>>
    /\ pc = "idle"
    /\ mode = "none"
    /\ loopIdx = 0
    /\ best_f1 = InitBestF1
    /\ best_results = None
    /\ is_updated = TRUE
    /\ scanned = <<>>
    /\ ret = None
    /\ calls = 0
    /\ firstRet = None

\* an evaluator constructed (lines 25-40) over dataloaders of 0..MaxBatches batches, and
\* called during training, model and loss module in train mode
CallInit ==
    /\ EvalIdle
    /\ TripletIdle
    /\ ReconIdle
    /\ LossIdle
    /\ zeroDiv \in {"nan", "zero"}
    /\ loaders \in [Splits -> 0..MaxBatches]
    /\ cpc = "start"
    /\ loss_training = TRUE
    /\ model_training = TRUE
    /\ num_batch = -1
    /\ eval_loss = 0
    /\ dl_results = <<>>
    /\ val_results = None
    /\ test_results = None
    /\ passed = None
    /\ order = <<>>
    /\ call_ret = None
    /\ skipped = [train |-> 0, val |-> 0, test |-> 0]

\* the locals of evaluate_dataloader as a call enters with them, lines 92-96 (num_batch
\* is unbound, -1 here); a call that returns leaves them so for the next one
EnterDataloader ==
    /\ num_batch' = -1
    /\ eval_loss' = 0
    /\ dl_results' = <<>>

\* lines 187-192 and 198: eval mode, then the train dataloader if it is truthy (non-empty),
\* else the val dataloader; the model is a submodule of the loss module (loss.py line 50)
CallBegin ==
    /\ cpc = "start"
    /\ model_training' = FALSE
    /\ loss_training' = FALSE
    /\ cpc' = IF loaders.train > 0 THEN "train" ELSE "val"
    /\ EnterDataloader
    /\ UNCHANGED <<zeroDiv, evalVars, tripVars, reconVars, lossVars, loaders, val_results, test_results, passed, order, call_ret, skipped>>

\* one iteration of the loop of line 98 in pair mode: the batch's row is appended
\* (lines 108-118) and its loss is added unless it is NaN (lines 152-157)
Batch ==
    /\ cpc \in Splits
    /\ num_batch + 1 < loaders[cpc]
    /\ \E row \in CallRows, cur_loss \in Losses :
        /\ dl_results' = Append(dl_results, row)
        /\ eval_loss' = IF ~IsNaN(cur_loss) THEN eval_loss + cur_loss[1] ELSE eval_loss
        /\ skipped' = IF ~IsNaN(cur_loss) THEN skipped ELSE [skipped EXCEPT ![cpc] = @ + 1]
    /\ num_batch' = num_batch + 1
    /\ UNCHANGED <<zeroDiv, evalVars, tripVars, reconVars, lossVars, loaders, cpc, loss_training, model_training,
                   val_results, test_results, passed, order, call_ret>>

\* line 160 on a dataloader of no batch: torch.cat of an empty list raises
DataloaderEmpty ==
    /\ cpc \in Splits
    /\ loaders[cpc] = 0
    /\ cpc' = "raised"
    /\ UNCHANGED <<zeroDiv, evalVars, tripVars, reconVars, lossVars, loaders, loss_training, model_training, num_batch,
                   eval_loss, dl_results, val_results, test_results, passed, order, call_ret, skipped, skipped>>

\* lines 175-177: the loss module's config dict (loss.py lines 79-81) with the mean
\* loss over the len(dataloader) batches and the scores
Results(total, last_batch, eval_scores) ==
    [distance_metric |-> "dist", loss |-> <<total, last_batch + 1>>, scores |-> eval_scores]

\* the hyperparameters evaluate_dataloader was called with: lines 194, 199, 205-210
DataloaderArgs == IF cpc = "test" THEN passed ELSE <<None, None>>

\* lines 160-179 once every batch is processed, and the return into __call__
DataloaderFinish ==
    /\ cpc \in Splits
    /\ loaders[cpc] > 0
    /\ num_batch + 1 = loaders[cpc]
    /\ LET ev      == evaluate(dl_results, EvalGranularity, DataloaderArgs[1], DataloaderArgs[2])
           results == Results(eval_loss, num_batch, ev.ret)
       IN  /\ val_results' = IF cpc = "val" THEN Some(results) ELSE val_results
           /\ test_results' = IF cpc = "test" THEN Some(results) ELSE test_results
           /\ order' = Append(order, [split |-> cpc, mode |-> ev.mode])
    /\ loss_training' = TRUE
    /\ model_training' = TRUE
    /\ cpc' = IF cpc = "train" THEN "val"
              ELSE IF cpc = "val" /\ loaders.test > 0 THEN "pass"
              ELSE "return"
    /\ EnterDataloader
    /\ UNCHANGED <<zeroDiv, evalVars, tripVars, reconVars, lossVars, loaders, passed, call_ret, skipped>>

\* lines 203-210: the arguments of the test evaluation are read from val_results["scores"],
\* which raises TypeError when the validation search returned None
CallTest ==
    /\ cpc = "pass"
    /\ IF val_results[1].scores = None
       THEN /\ cpc' = "raised"
            /\ UNCHANGED <<passed, num_batch, eval_loss, dl_results>>
       ELSE /\ passed' = <<Some(val_results[1].scores[1].centri_score_weight),
                           Some(val_results[1].scores[1].threshold)>>
            /\ cpc' = "test"
            /\ EnterDataloader
    /\ UNCHANGED <<zeroDiv, evalVars, tripVars, reconVars, lossVars, loaders, loss_training, model_training,
                   val_results, test_results, order, call_ret, skipped>>

\* line 214
CallReturn ==
    /\ cpc = "return"
    /\ IF val_results[1].scores = None
       THEN /\ cpc' = "raised"
            /\ UNCHANGED call_ret
       ELSE /\ call_ret' = Some(val_results[1].scores[1].F1)
            /\ cpc' = "done"
    /\ UNCHANGED <<zeroDiv, evalVars, tripVars, reconVars, lossVars, loaders, loss_training, model_training, num_batch,
                   eval_loss, dl_results, val_results, test_results, passed, order, skipped>>

CallNext ==
    \/ CallBegin
    \/ Batch
    \/ DataloaderEmpty
    \/ DataloaderFinish
    \/ CallTest
    \/ CallReturn

SpecCall == CallInit /\ [][CallNext]_vars

(* Claim C2 *)

TestEvaluated == test_results # None

\* C2: within one __call__ the validation split is evaluated in search mode and its
\* result is finalized before the test evaluation starts; the test evaluation is passed
\* exactly the validation-selected weight and threshold, and the weight and threshold
\* reported in the test results are those same values: the test split is never searched.
C2_TestReusesValidationChoice ==
    TestEvaluated =>
        /\ Len(order) >= 2
        /\ order[Len(order)] = [split |-> "test", mode |-> "apply"]
        /\ order[Len(order) - 1] = [split |-> "val", mode |-> "search"]
        /\ val_results[1].scores # None
        /\ passed = <<Some(val_results[1].scores[1].centri_score_weight),
                      Some(val_results[1].scores[1].threshold)>>
        /\ test_results[1].scores # None
        /\ test_results[1].scores[1].centri_score_weight = passed[1][1]
        /\ test_results[1].scores[1].threshold = passed[2][1]

\* the ordering and argument-passing part of C2 alone
C2_OrderAndArguments ==
    TestEvaluated =>
        /\ Len(order) >= 2
        /\ order[Len(order)].split = "test"
        /\ order[Len(order) - 1] = [split |-> "val", mode |-> "search"]
        /\ val_results[1].scores # None
        /\ passed = <<Some(val_results[1].scores[1].centri_score_weight),
                      Some(val_results[1].scores[1].threshold)>>


----------------------------------------------------------------------------
(* Triplet mode: evaluate_dataloader over a dataloader of triplets, as called at line 199 *)

NegPerPos == 10
MaxGroups == 2

\* the numbers of triplets example_generator emits for one sample (utils.py line 32):
\* one per negative, at most 10 with hard_negative_first (line 26), any number without
GroupSizes == {1, 9, 10, 11}
BatchSizes == {1, 4, 10, 32}

\* the triplets of one sample: <<sample, index of the negative>>
RECURSIVE GroupTriplets(_, _)
GroupTriplets(g, size) ==
    IF size = 0 THEN <<>> ELSE Append(GroupTriplets(g, size - 1), <<g, size>>)

\* example_generator with in_triplets: utils.py lines 18-33, for samples of the given sizes
RECURSIVE example_generator(_)
example_generator(sizes) ==
    IF Len(sizes) = 0 THEN <<>>
    ELSE example_generator(SubSeq(sizes, 1, Len(sizes) - 1))
             \o GroupTriplets(Len(sizes), sizes[Len(sizes)])

TripletDatasets ==
    {example_generator(sizes) : sizes \in UNION {[1..k -> GroupSizes] : k \in 0..MaxGroups}}

\* the model's embeddings, as the distances and norms of lines 123-128; every sample has
\* its own anchor norm and every negative of a sample its own distance
positive_dists(t) == 2
negative_dists(t) == 4 + 2 * t[2]
rep_anchor_norms(t) == 2 * t[1] + 2
rep_positive_norms(t) == 2 * t[1]
rep_negative_norms(t) == 2 * t[1] + 2

\* lines 130-149: the block of label-1 rows of a batch, then its block of label-0 rows
TripletRows(batch) ==
    [i \in 1..Len(batch) |->
        <<1, positive_dists(batch[i]), rep_anchor_norms(batch[i]), rep_positive_norms(batch[i])>>]
    \o
    [i \in 1..Len(batch) |->
        <<0, negative_dists(batch[i]), rep_anchor_norms(batch[i]), rep_negative_norms(batch[i])>>]

\* Python's seq[lo:hi] for 0 <= lo <= hi
Slice(seq, lo, hi) == SubSeq(seq, lo + 1, IF hi < Len(seq) THEN hi ELSE Len(seq))

\* Python's seq[::n]
MutEveryNthKeepsAll(seq, n) == seq
EveryNth(seq, n) == [i \in 1..((Len(seq) + n - 1) \div n) |-> seq[(i - 1) * n + 1]]

\* lines 166-168, from index i on
RECURSIVE RealMat(_, _, _)
RealMat(positive_mat, negative_mat, i) ==
    IF i >= Len(positive_mat) THEN <<>>
    ELSE <<positive_mat[i + 1]>> \o Slice(negative_mat, NegPerPos * i, NegPerPos * (i + 1))
             \o RealMat(positive_mat, negative_mat, i + 1)

\* lines 164-169: the reshape of the concatenated rows
TripletReshape(mat) ==
    LET IsPositive(r) == r[1] = 1
        IsNegative(r) == r[1] = 0
        positive_mat  == EveryNth(SelectSeq(mat, IsPositive), NegPerPos)
        negative_mat  == SelectSeq(mat, IsNegative)
    IN  RealMat(positive_mat, negative_mat, 0)

\* len(dataloader)
NumBatches == (Len(examples) + batch_size - 1) \div batch_size

\* evaluate_dataloader entered from line 199, after lines 187-188
TripletInit ==
    /\ zeroDiv \in {"nan", "zero"}
    /\ examples \in TripletDatasets
    /\ batch_size \in BatchSizes
    /\ result_mat = <<>>
    /\ granuality = EvalGranularity
    /\ args = <<None, None>>
    /\ pc = "idle"
    /\ mode = "none"
    /\ loopIdx = 0
    /\ best_f1 = InitBestF1
    /\ best_results = None
    /\ is_updated = TRUE
    /\ scanned = <<>>
    /\ ret = None
    /\ calls = 0
    /\ firstRet = None
    /\ loaders = [train |-> 0, val |-> NumBatches, test |-> 0]
    /\ cpc = "val"
    /\ loss_training = FALSE
    /\ model_training = FALSE
    /\ num_batch = -1
    /\ eval_loss = 0
    /\ dl_results = <<>>
    /\ val_results = None
    /\ test_results = None
    /\ passed = None
    /\ order = <<>>
    /\ call_ret = None
    /\ skipped = [train |-> 0, val |-> 0, test |-> 0]
    /\ ReconIdle
    /\ LossIdle

searchVars == <<granuality, args, pc, mode, loopIdx, best_f1, best_results, is_updated,
                scanned, ret, calls, firstRet>>

\* one iteration of the loop of line 98 in triplet mode: lines 119-157
TripletBatch ==
    /\ cpc = "val"
    /\ num_batch + 1 < loaders.val
    /\ LET batch == Slice(examples, (num_batch + 1) * batch_size, (num_batch + 2) * batch_size)
       IN  dl_results' = dl_results \o TripletRows(batch)
    /\ \E cur_loss \in Losses :
        /\ eval_loss' = IF ~IsNaN(cur_loss) THEN eval_loss + cur_loss[1] ELSE eval_loss
        /\ skipped' = IF ~IsNaN(cur_loss) THEN skipped ELSE [skipped EXCEPT !.val = @ + 1]
    /\ num_batch' = num_batch + 1
    /\ UNCHANGED <<zeroDiv, result_mat, searchVars, tripVars, reconVars, lossVars, loaders, cpc,
                   loss_training, model_training, val_results, test_results, passed,
                   order, call_ret>>

\* line 160 on a dataloader of no batch: torch.cat of an empty list raises
TripletEmpty ==
    /\ cpc = "val"
    /\ loaders.val = 0
    /\ cpc' = "raised"
    /\ UNCHANGED <<zeroDiv, result_mat, searchVars, tripVars, reconVars, lossVars, loaders,
                   loss_training, model_training, num_batch, eval_loss, dl_results,
                   val_results, test_results, passed, order, call_ret, skipped>>

\* lines 160-179 in triplet mode once every batch is processed
TripletFinish ==
    /\ cpc = "val"
    /\ loaders.val > 0
    /\ num_batch + 1 = loaders.val
    /\ result_mat' = TripletReshape(dl_results)
    /\ LET ev == evaluate(result_mat', EvalGranularity, None, None)
       IN  /\ val_results' = Some(Results(eval_loss, num_batch, ev.ret))
           /\ order' = Append(order, [split |-> "val", mode |-> ev.mode])
    /\ loss_training' = TRUE
    /\ model_training' = TRUE
    /\ cpc' = "return"
    /\ EnterDataloader
    /\ UNCHANGED <<zeroDiv, searchVars, tripVars, reconVars, lossVars, loaders, test_results, passed,
                   call_ret, skipped>>

TripletNext ==
    \/ TripletBatch
    \/ TripletEmpty
    \/ TripletFinish

SpecTriplet == TripletInit /\ [][TripletNext]_vars

(* Claim C9 *)

CountLabel(mat, label) == Cardinality({i \in 1..Len(mat) : mat[i][1] = label})

\* evaluate_dataloader returned its metrics
TripletReturned == cpc = "return" /\ val_results # None

\* C9: in triplet mode, when the collected rows do not have exactly 10 negative rows per
\* retained positive row, evaluate_dataloader rejects the input before any metric is
\* computed: whenever it does return metrics, the matrix they were computed on has
\* exactly 10 label-0 rows for each of its label-1 rows.
C9_MalformedTripletsRejected ==
    TripletReturned =>
        CountLabel(result_mat, 0) = NegPerPos * CountLabel(result_mat, 1)


----------------------------------------------------------------------------
(* ReconstructionEvaluator: hypernym ranks, average precision, mean rank and MAP *)

NumEntities == 3

\* graph.entities, in order
Entities == 1..NumEntities

\* the distance between the embeddings of two distinct entities
DistanceValues == {0, 1, 2}

\* the hypernym relation of a hierarchy: acyclic, entities numbered along it
HypernymGraphs ==
    {g \in [Entities -> SUBSET Entities] : \A e \in Entities : \A h \in g[e] : h > e}

\* embedding tables: the distance is symmetric and zero from an entity to itself
DistanceTables ==
    LET pairs == {p \in Entities \X Entities : p[1] < p[2]}
    IN  {[e \in Entities |-> [x \in Entities |->
            IF e = x THEN 0 ELSE IF e < x THEN u[<<e, x>>] ELSE u[<<x, e>>]]] :
         u \in [pairs -> DistanceValues]}

RECURSIVE Gcd(_, _)
Gcd(a, b) == IF b = 0 THEN a ELSE Gcd(b, a % b)

\* a float: the fraction in lowest terms, NaN as <<0, 0>>
Normalise(f) ==
    IF IsNaN(f) THEN <<0, 0>>
    ELSE LET g == Gcd(f[1], f[2]) IN <<f[1] \div g, f[2] \div g>>

RECURSIVE SumFracs(_)
SumFracs(fs) ==
    IF Len(fs) = 0 THEN <<0, 1>>
    ELSE LET rest == SumFracs(Tail(fs))
             f    == Head(fs)
         IN  IF IsNaN(f) \/ IsNaN(rest) THEN <<0, 0>>
             ELSE <<f[1] * rest[2] + rest[1] * f[2], f[2] * rest[2]>>

\* np.mean of a list of floats: NaN for the empty list
Mean(fs) ==
    IF Len(fs) = 0 THEN <<0, 0>>
    ELSE LET t == SumFracs(fs) IN Normalise(<<t[1], t[2] * Len(fs)>>)

\* np.sort
RECURSIVE Insert(_, _)
Insert(x, sorted) ==
    IF Len(sorted) = 0 THEN <<x>>
    ELSE IF x <= Head(sorted) THEN <<x>> \o sorted
    ELSE <<Head(sorted)>> \o Insert(x, Tail(sorted))

RECURSIVE Sort(_)
Sort(seq) == IF Len(seq) = 0 THEN <<>> ELSE Insert(Head(seq), Sort(Tail(seq)))

\* the orders in which a set can be iterated
Orders(set) ==
    {o \in [1..Cardinality(set) -> set] : \A i, j \in 1..Cardinality(set) : i # j => o[i] # o[j]}

\* rest = set(self.graph.entities) - hypernyms: line 75
Rest(hyps, entity_name) == Entities \ hyps

\* lines 67-81: the rank of each hypernym, the empty dict when there is none
get_hypernym_ranks(entity_name) ==
    LET hyps == hypernyms[entity_name]
        rest == Rest(hyps, entity_name)
    IN  [h \in hyps |->
            Cardinality({x \in rest : distances[entity_name][x] < distances[entity_name][h]}) + 1]

\* map_ranks = np.sort(ranks) + np.arange(len(ranks)): lines 92-94, on the sorted ranks
MutMapRanksUnshifted(sorted) == sorted
MapRanks(sorted) == [i \in 1..Len(sorted) |-> sorted[i] + (i - 1)]

\* lines 88-97 for a non-empty rank_dict whose values are listed in the given order
get_hypernym_average_precision(ranks_of, ordering) ==
    LET ranks     == [i \in 1..Len(ordering) |-> ranks_of[ordering[i]]]
        map_ranks == MapRanks(Sort(ranks))
        final     == Sort(map_ranks)
    IN  [avg_precision |-> Mean([i \in 1..Len(final) |-> <<i, final[i]>>]),
         ranks         |-> ranks]

ReconInit ==
    /\ EvalIdle
    /\ CallIdle
    /\ TripletIdle
    /\ LossIdle
    /\ zeroDiv = "nan"
    /\ hypernyms \in HypernymGraphs
    /\ distances \in DistanceTables
    /\ ent = 0
    /\ rank_dict = <<>>
    /\ ap_results = None
    /\ all_ranks = <<>>
    /\ all_aps = <<>>
    /\ recon_ret = None

\* one iteration of the loop of lines 59-64 over eval_entities = graph.entities
\* (max_eval_nums is None), for an entity that has hypernyms
EvaluateEntity ==
    /\ recon_ret = None
    /\ ent < NumEntities
    /\ hypernyms[ent + 1] # {}
    /\ ent' = ent + 1
    /\ rank_dict' = get_hypernym_ranks(ent')
    /\ \E ordering \in Orders(DOMAIN rank_dict') :
        LET res == get_hypernym_average_precision(rank_dict', ordering)
        IN  /\ ap_results' = Some(res)
            /\ all_ranks' = all_ranks \o res.ranks
            /\ all_aps' = Append(all_aps, res.avg_precision)
    /\ UNCHANGED <<zeroDiv, evalVars, callVars, tripVars, lossVars, hypernyms, distances, recon_ret>>

\* the same iteration for an entity without hypernyms: lines 72-73, 89-90 and 61
SkipEntity ==
    /\ recon_ret = None
    /\ ent < NumEntities
    /\ hypernyms[ent + 1] = {}
    /\ ent' = ent + 1
    /\ rank_dict' = <<>>
    /\ ap_results' = None
    /\ UNCHANGED <<zeroDiv, evalVars, callVars, tripVars, lossVars, hypernyms, distances, all_ranks,
                   all_aps, recon_ret>>

\* line 65
ReconReturn ==
    /\ recon_ret = None
    /\ ent = NumEntities
    /\ recon_ret' = Some([mean_rank |-> Mean([i \in 1..Len(all_ranks) |-> <<all_ranks[i], 1>>]),
                          MAP       |-> Mean(all_aps)])
    /\ UNCHANGED <<zeroDiv, evalVars, callVars, tripVars, lossVars, hypernyms, distances, ent,
                   rank_dict, ap_results, all_ranks, all_aps>>

ReconNext ==
    \/ EvaluateEntity
    \/ SkipEntity
    \/ ReconReturn

SpecRecon == ReconInit /\ [][ReconNext]_vars

(* Claim C10 *)

\* the entity evaluated last has the single hypernym h, and h is closer to it than
\* every other entity of the graph is
SingleNearestHypernym(e, h) ==
    /\ hypernyms[e] = {h}
    /\ \A x \in Entities \ {e, h} : distances[e][h] < distances[e][x]

\* the chain a -> b -> c as entities 1, 2, 3 with b the single hypernym of a, b nearer
\* to a than c is
ChainExample ==
    /\ hypernyms = (1 :> {2} @@ 2 :> {3} @@ 3 :> {})
    /\ distances[1][2] = 1
    /\ distances[1][3] = 2

\* C10: for every entity e that has exactly one true hypernym h, where h is closer to e
\* than every other entity of the graph is, get_hypernym_ranks(e) is {h: 1} and the
\* average precision of e is 1.0; on the 3-entity chain the ranks of a are {b: 1} and
\* MAP is 1.0.
C10_NearestSingleHypernymRanksFirst ==
    /\ \A h \in Entities :
        (ent >= 1 /\ SingleNearestHypernym(ent, h)) =>
            /\ rank_dict = (h :> 1)
            /\ ap_results # None
            /\ FracEq(ap_results[1].avg_precision, <<1, 1>>)
    /\ (ChainExample /\ ent = 1) => rank_dict = (2 :> 1)
    /\ (ChainExample /\ recon_ret # None) => FracEq(recon_ret[1].MAP, <<1, 1>>)


(* Claim C11 *)

\* the ranks of the entity evaluated last, ascending: the non-decreasing sequence that
\* lists every hypernym's rank once
AscendingRanks ==
    CHOOSE r \in [1..Cardinality(DOMAIN rank_dict) -> 1..NumEntities] :
        /\ \A i \in 1..(Len(r) - 1) : r[i] <= r[i + 1]
        /\ \E o \in Orders(DOMAIN rank_dict) : \A i \in 1..Len(r) : r[i] = rank_dict[o[i]]

\* (1/k) * sum over i = 1..k of i / (r_i + i - 1)
ShiftedPrecision(r) ==
    LET total == SumFracs([i \in 1..Len(r) |-> <<i, r[i] + i - 1>>])
    IN  <<total[1], total[2] * Len(r)>>

\* C11: for an entity with k >= 1 true hypernyms whose ranks sorted ascending are
\* r_1 <= ... <= r_k, get_hypernym_average_precision returns
\* (1/k) * sum over i of i / (r_i + i - 1); for an entity with no hypernyms it returns
\* no value.
C11_AveragePrecisionFormula ==
    ent >= 1 =>
        IF hypernyms[ent] = {}
        THEN ap_results = None
        ELSE /\ ap_results # None
             /\ DOMAIN rank_dict = hypernyms[ent]
             /\ FracEq(ap_results[1].avg_precision, ShiftedPrecision(AscendingRanks))

\* an entity with two hypernyms of ranks 2 and 1, listed in that order: the average
\* precision is (1/1 + 2/3) / 2 = 5/6
C11_Witness ==
    /\ ent >= 1
    /\ ap_results # None
    /\ ap_results[1].ranks = <<2, 1>>
    /\ ap_results[1].avg_precision = <<5, 6>>


----------------------------------------------------------------------------
(* HyperbolicLoss.forward on one batch; reals in tenths, loss terms as fractions *)

MaxBatch == 3
LossUnit == 10

\* the embeddings lie on one ray from the origin and are given by their hyperbolic
\* norm, so that the distance between two of them is the difference of their norms
AnchorNorms == {10, 20}
OtherNorms == {0, 20}
LabelValues == {0, 1, 2}

Batches(values) == UNION {[1..n -> values] : n \in 1..MaxBatch}

\* the length of the elementwise combination of tensors of lengths m and n under
\* torch broadcasting, 0 when the shapes are incompatible (RuntimeError)
Broadcast(m, n) == IF m = n THEN m ELSE IF m = 1 THEN n ELSE IF n = 1 THEN m ELSE 0

\* element i of a tensor broadcast to a longer one
At(t, i) == IF Len(t) = 1 THEN t[1] ELSE t[i]

relu(x) == IF x > 0 THEN x ELSE 0

\* self.distance_metric(rep_anchor, rep_other), element i: line 89
distance_metric(i) ==
    LET a == At(rep_anchor, i)
        o == At(rep_other, i)
    IN  IF a >= o THEN a - o ELSE o - a

\* self.energy(cone_tip=rep_other, u=rep_anchor), element i: lines 75-77 and 108; on a
\* ray the anchor is inside the cone of a tip nearer to the origin (energy 0) and
\* outside the cone of any other tip (energy 3.0 here)
energy(i) == IF At(rep_other, i) < At(rep_anchor, i) THEN 0 ELSE 3 * LossUnit

\* the length of labels.float() * distances: lines 89-92
BatchShape == Broadcast(Len(fwd_labels), Broadcast(Len(rep_anchor), Len(rep_other)))

\* two embeddings per pair (line 85), for every batch of anchors, others and labels
LossInit ==
    /\ EvalIdle
    /\ CallIdle
    /\ TripletIdle
    /\ ReconIdle
    /\ zeroDiv = "nan"
    /\ rep_anchor \in Batches(AnchorNorms)
    /\ rep_other \in Batches(OtherNorms)
    /\ fwd_labels \in {l \in Batches(LabelValues) : Len(l) = Len(rep_anchor)}
    /\ fpc = "cluster"
    /\ cluster_loss = None
    /\ centri_loss = None
    /\ cone_loss = None
    /\ fwd_loss = None

\* lines 89-94: 0.5 * (labels * d^2 + (1 - labels) * relu(5.0 - d)^2), averaged
ClusterLoss ==
    LET n     == BatchShape
        terms == [i \in 1..n |->
                     <<At(fwd_labels, i) * distance_metric(i) * distance_metric(i)
                       + (1 - At(fwd_labels, i)) * relu(5 * LossUnit - distance_metric(i))
                                                 * relu(5 * LossUnit - distance_metric(i)),
                       2 * LossUnit * LossUnit>>]
    IN  Mean(terms)

\* lines 97-105: sum of labels * relu(0.5 + other norm - anchor norm) over sum of labels
CentriLoss ==
    LET n      == BatchShape
        hinge  == [i \in 1..n |->
                      <<At(fwd_labels, i)
                        * relu(LossUnit \div 2 + At(rep_other, i) - At(rep_anchor, i)), LossUnit>>]
        total  == SumFracs(hinge)
        weight == SumFracs([i \in 1..Len(fwd_labels) |-> <<fwd_labels[i], 1>>])
    IN  IF weight[1] = 0 THEN <<0, 0>> ELSE Normalise(<<total[1], total[2] * weight[1]>>)

\* lines 108-110: labels * e^2 + (1 - labels) * relu(0.1 - e)^2, averaged
ConeLoss ==
    LET n     == BatchShape
        terms == [i \in 1..n |->
                     <<At(fwd_labels, i) * energy(i) * energy(i)
                       + (1 - At(fwd_labels, i)) * relu(LossUnit \div 10 - energy(i))
                                                 * relu(LossUnit \div 10 - energy(i)),
                       LossUnit * LossUnit>>]
    IN  Mean(terms)

\* line 89 on shapes that do not broadcast: the tensor operation raises RuntimeError
ForwardShapeError ==
    /\ fpc = "cluster"
    /\ BatchShape = 0
    /\ fpc' = "raised"
    /\ UNCHANGED <<zeroDiv, evalVars, callVars, tripVars, reconVars, fwd_labels, rep_anchor,
                   rep_other, cluster_loss, centri_loss, cone_loss, fwd_loss>>

ForwardCluster ==
    /\ fpc = "cluster"
    /\ BatchShape # 0
    /\ cluster_loss' = Some(ClusterLoss)
    /\ fpc' = "centri"
    /\ UNCHANGED <<zeroDiv, evalVars, callVars, tripVars, reconVars, fwd_labels, rep_anchor,
                   rep_other, centri_loss, cone_loss, fwd_loss>>

ForwardCentri ==
    /\ fpc = "centri"
    /\ centri_loss' = Some(CentriLoss)
    /\ fpc' = "cone"
    /\ UNCHANGED <<zeroDiv, evalVars, callVars, tripVars, reconVars, fwd_labels, rep_anchor,
                   rep_other, cluster_loss, cone_loss, fwd_loss>>

ForwardCone ==
    /\ fpc = "cone"
    /\ cone_loss' = Some(ConeLoss)
    /\ fpc' = "sum"
    /\ UNCHANGED <<zeroDiv, evalVars, callVars, tripVars, reconVars, fwd_labels, rep_anchor,
                   rep_other, cluster_loss, centri_loss, fwd_loss>>

\* lines 115-122 with the default loss_weights, 1.0 each (line 45)
ForwardReturn ==
    /\ fpc = "sum"
    /\ fwd_loss' = Some(Normalise(SumFracs(<<cluster_loss[1], centri_loss[1], cone_loss[1]>>)))
    /\ fpc' = "returned"
    /\ UNCHANGED <<zeroDiv, evalVars, callVars, tripVars, reconVars, fwd_labels, rep_anchor,
                   rep_other, cluster_loss, centri_loss, cone_loss>>

LossNext ==
    \/ ForwardShapeError
    \/ ForwardCluster
    \/ ForwardCentri
    \/ ForwardCone
    \/ ForwardReturn

SpecLoss == LossInit /\ [][LossNext]_vars

(* Claim C12 *)

BinaryLabels == \A i \in 1..Len(fwd_labels) : fwd_labels[i] \in {0, 1}

SameShapes == Len(rep_anchor) = Len(rep_other)

\* C12: forward rejects the batch with an invalid-input error, before computing any loss
\* term, whenever the label tensor contains a value other than 0 or 1 or the anchor and
\* other embeddings have different shapes: a loss term is computed only for binary
\* labels and equal shapes.
C12_InvalidBatchRejected ==
    cluster_loss # None => (BinaryLabels /\ SameShapes)


(* Claim C13 *)

\* what a results dict holds besides the loss module's config, the loss and the scores
ExtraEntries(res) == {res[k] : k \in DOMAIN res \ {"distance_metric", "loss", "scores"}}

\* a batch whose loss is NaN leaves the running loss total unchanged and the loop moves
\* on to the next batch
C13_NaNBatchLeavesLossUnchanged ==
    [][skipped' # skipped =>
          /\ eval_loss' = eval_loss
          /\ num_batch' = num_batch + 1
          /\ cpc' = cpc]_vars

\* C13: over any sequence of batches in evaluate_dataloader, a batch whose loss is NaN
\* leaves the running loss total unchanged and evaluation continues with the next
\* batch, and the number of batches skipped this way is surfaced in the evaluation
\* results: the results of the val dataloader hold its count of skipped batches.
C13_SkippedCountSurfaced ==
    val_results # None => skipped.val \in ExtraEntries(val_results[1])


(* Claim C14 *)

\* the candidates the search scanned at the weight k, as positions of scanned
ScannedAt(k) == {i \in DOMAIN scanned : scanned[i][1] = k}

\* some threshold scanned at the weight k produced an F1 strictly greater than the best
\* F1 of all earlier candidates (and than the initial best, -1.0)
ImprovedAt(k) ==
    \E i \in ScannedAt(k) :
        /\ FracGt(scanned[i][3], InitBestF1)
        /\ \A j \in 1..(i - 1) : ~IsNaN(scanned[j][3]) => FracGt(scanned[i][3], scanned[j][3])

\* a search is under way or has returned; the weights 1..loopIdx have been evaluated
Searching == mode = "search" /\ pc \in {"loop", "done"}

\* C14: search mode evaluates the weights 1, 2, ..., at most 10, in increasing order;
\* weight k+1 is evaluated if and only if some threshold scanned at weight k produced an
\* F1 strictly greater than the best F1 found at all earlier candidates, and once a
\* weight produces no such improvement no larger weight is evaluated.
C14_WeightsInOrderUntilNoImprovement ==
    Searching =>
        /\ loopIdx <= NumWeights
        /\ \A i \in DOMAIN scanned : scanned[i][1] \in 1..loopIdx
        /\ \A i \in 1..(Len(scanned) - 1) : scanned[i][1] <= scanned[i + 1][1]
        /\ \A k \in 1..(loopIdx - 1) : ImprovedAt(k)
        /\ pc = "done" =>
              /\ loopIdx >= 1
              /\ loopIdx < NumWeights => ~ImprovedAt(loopIdx)

\* a search that evaluated the weights 1, 2 and 3 and stopped: the scan of weight 3 had
\* candidates and none improved on the best F1
C14_Witness ==
    /\ PlainSearchReturned
    /\ loopIdx = 3
    /\ ScannedAt(3) # {}
    /\ ImprovedAt(1)
    /\ ImprovedAt(2)
    /\ ~ImprovedAt(3)


(* Claim C15 *)

\* the number of groups of a dataset of consecutive groups of NegPerPos triplets that
\* share anchor and positive; 0 for any other dataset
WholeGroups ==
    IF /\ Len(examples) % NegPerPos = 0
       /\ \A n \in 1..Len(examples) :
             examples[n] = <<((n - 1) \div NegPerPos) + 1, ((n - 1) % NegPerPos) + 1>>
    THEN Len(examples) \div NegPerPos
    ELSE 0

\* C15: in triplet mode, for a dataset of 10*k triplets delivered in order as k
\* consecutive groups of 10 triplets that share anchor and positive, and for any batch
\* size, the result matrix has exactly 11*k rows in a fixed stride: row 11*i is the
\* label-1 row of group i, rows 11*i+1 .. 11*i+10 are the ten label-0 rows of group i in
\* their original order, and all eleven rows of a group carry the same anchor norm.
C15_FixedStrideInterleave ==
    (TripletReturned /\ WholeGroups >= 1) =>
        /\ Len(result_mat) = (NegPerPos + 1) * WholeGroups
        /\ \A g \in 1..WholeGroups :
              LET base == (NegPerPos + 1) * (g - 1) + 1
              IN  /\ result_mat[base] = <<1, positive_dists(<<g, 1>>), rep_anchor_norms(<<g, 1>>),
                                          rep_positive_norms(<<g, 1>>)>>
                  /\ \A j \in 1..NegPerPos :
                        /\ result_mat[base + j] = <<0, negative_dists(<<g, j>>),
                                                    rep_anchor_norms(<<g, j>>),
                                                    rep_negative_norms(<<g, j>>)>>
                        /\ result_mat[base + j][3] = result_mat[base][3]

\* two groups delivered in batches of 4, which straddle the groups
C15_Witness ==
    /\ TripletReturned
    /\ WholeGroups = 2
    /\ batch_size = 4
    /\ Len(result_mat) = 22


(* Claim C16 *)

\* evaluate_dataloader is running over a dataloader that has batches
DataloaderRunning == cpc \in Splits /\ loaders[cpc] > 0

\* the loss module is in train mode when __call__ returns
C16_TrainModeOnReturn == cpc = "done" => loss_training

\* C16: during one __call__, every evaluate_dataloader invocation (train when
\* configured, then val, then test when configured) runs from its first batch to its
\* last with the loss module, and the model it wraps, in eval mode; the loss module is
\* back in train mode when __call__ returns.
C16_EvalModeThroughout ==
    /\ DataloaderRunning => (~loss_training /\ ~model_training)
    /\ cpc = "done" => loss_training

============================================================================
